---- MODULE Spec2Model ----
(***************************************************************************)
(* A model of the application container of holochain-rust                  *)
(* (container_api/src/container.rs) and of the get-entry workflows         *)
(* (core/src/workflows/get_entry_result.rs).                               *)
(*                                                                         *)
(* The Container struct is one record-valued variable; the Holochain       *)
(* instances it shares through Arc<RwLock<..>> live in a heap, so that the *)
(* identity of a shared handle is its heap index.  The configuration       *)
(* validator, the bridge call table, Holochain::{new,start,stop,call} and  *)
(* ipc_spawn are collaborators whose code lies outside the two files; they *)
(* are modelled from the design document and marked so in the model map.   *)
(***************************************************************************)
EXTENDS Integers, Sequences, FiniteSets, TLC

\* ------------------------------------------------------------------ bounds

\* Largest number of bridges in a configuration of the bridge family.
MaxBridges == 3
\* Largest number of load_config calls on one container.
MaxLoads == 2
\* spawn_network is called directly only while fewer helpers than this were spawned.
MaxProcs == 2
\* Number of interface worker threads that serve RPC calls concurrently.
NumThreads == 2
\* Interfaces are started only while the threads spawned so far leave room below this.
MaxWorkers == 2

\* ------------------------------------------------------------ vocabulary

None == "none"

Ids == {"A", "B", "C"}
Handles == {"h1", "h2"}
DnaIds == {"callee", "testdna", "caller"}

\* Instance ids compare as strings do.
Rank(id) == CASE id = "A" -> 1 [] id = "B" -> 2 [] id = "C" -> 3 [] OTHER -> 4

\* The file reference of a module descriptor (dnas[].file of the test configuration).
dna_file(d) ==
    CASE d = "callee" -> "bridge/callee.dna"
      [] d = "caller" -> "bridge/caller.dna"
      [] OTHER -> "app_spec.hcpkg"

Files == {dna_file(d) : d \in DnaIds}

Range(s) == {s[k] : k \in DOMAIN s}

EmptyFn == [x \in {} |-> None]

\* f with key k bound to v (HashMap::insert: a later insert replaces an earlier one).
Insert(f, k, v) == [x \in (DOMAIN f) \cup {k} |-> IF x = k THEN v ELSE f[x]]

\* ---------------------------------------------------------- configuration

Bridge(c, d, h) == [caller_id |-> c, callee_id |-> d, handle |-> h]

BridgeKey(b) ==
    Rank(b.caller_id) * 100 + Rank(b.callee_id) * 10 + (IF b.handle = "h1" THEN 1 ELSE 2)

\* The bridges of a set in the order the configuration document lists them.
RECURSIVE BridgeSeq(_)
BridgeSeq(S) ==
    IF S = {} THEN <<>>
    ELSE LET m == CHOOSE x \in S : \A y \in S : BridgeKey(x) <= BridgeKey(y)
         IN  <<m>> \o BridgeSeq(S \ {m})

\* How a configuration names its bridges: "distinct" gives the bridges of one
\* caller different handles, "same" names every bridge "h1".
HandleOf(scheme, c, d) ==
    IF scheme = "same" THEN "h1"
    ELSE IF \A x \in Ids \ {c} : Rank(d) <= Rank(x) THEN "h1" ELSE "h2"

BridgesNamed(scheme) == {Bridge(c, d, HandleOf(scheme, c, d)) : c \in Ids, d \in Ids}

RECURSIVE SubsetsUpTo(_, _)
SubsetsUpTo(S, n) ==
    IF n = 0 THEN {{}}
    ELSE LET smaller == SubsetsUpTo(S, n - 1)
         IN  smaller \cup {T \cup {x} : T \in smaller, x \in S}

\* The three-instance configuration of tests::test_toml.
BaseDna == [i \in Ids |-> CASE i = "A" -> "callee" [] i = "B" -> "testdna" [] OTHER -> "caller"]

BaseBridges == {Bridge("B", "A", "h1"), Bridge("C", "B", "h2"), Bridge("C", "A", "h1")}

\* An interface descriptor: the instances it exposes are a set of instance ids.
Interface(id, driver, insts) == [id |-> id, driver |-> driver, instances |-> insts]

\* The [[interfaces]] of tests::test_toml: both carry the id "test-interface".
BaseInterfaces ==
    <<Interface("test-interface", "websocket", {"A", "B"}),
      Interface("test-interface", "http", {"A", "B"})>>

Config(insts, dnaOf, bridges, net, badKeys) ==
    [instances  |-> insts,
     dna        |-> dnaOf,
     bridges    |-> BridgeSeq(bridges),
     interfaces |-> BaseInterfaces,
     network    |-> net,
     bad_keys   |-> badKeys]

\* Configurations with every shape of bridge graph, no network descriptor.
BridgeConfigs ==
    {Config(insts, BaseDna, bs, "none", {}) :
        insts \in {Ids, {"A", "B"}},
        bs \in UNION {SubsetsUpTo(BridgesNamed(scheme), MaxBridges) :
                        scheme \in {"distinct", "same"}}}

\* The test configuration with each kind of network descriptor.
NetworkConfigs ==
    {Config(Ids, BaseDna, BaseBridges, net, {}) : net \in {"spawn", "explicit"}}

\* The test configuration with shared or undeclared modules and unreadable agent keys.
DnaMaps ==
    {BaseDna,
     [i \in Ids |-> IF i = "C" THEN "caller" ELSE "callee"],
     [i \in Ids |-> IF i = "B" THEN "undeclared" ELSE BaseDna[i]]}

LoaderConfigs ==
    {Config(Ids, dnaOf, BaseBridges, "none", bk) :
        dnaOf \in DnaMaps, bk \in {{}, {"A"}, {"B"}}}

\* The test configuration made inconsistent, with a helper process to spawn: a
\* bridge that closes a cycle, and a bridge whose caller is not declared.
RejectedConfigs ==
    {Config(Ids, BaseDna, BaseBridges \cup {Bridge("A", "C", "h3")}, "spawn", {}),
     Config({"A", "B"}, BaseDna, BaseBridges, "spawn", {})}

\* ---------------------------------------------------- configuration validator

bridge_dependencies(cfg, id) ==
    SelectSeq(cfg.bridges, LAMBDA b : b.caller_id = id)

\* Kahn's algorithm: repeatedly place the least instance id all of whose callees
\* are placed.  Stops early when no instance is ready (a directed cycle).
RECURSIVE TopoFrom(_, _)
TopoFrom(cfg, placed) ==
    LET done      == Range(placed)
        remaining == cfg.instances \ done
        ready     == {i \in remaining :
                        \A k \in DOMAIN cfg.bridges :
                            cfg.bridges[k].caller_id = i => cfg.bridges[k].callee_id \in done}
    IN  IF ready = {} THEN placed
        ELSE LET next == CHOOSE i \in ready : \A j \in ready : Rank(i) <= Rank(j)
             IN  TopoFrom(cfg, Append(placed, next))

instance_ids_sorted_by_bridge_dependencies(cfg) ==
    LET order == TopoFrom(cfg, <<>>)
    IN  IF Range(order) = cfg.instances
        THEN [ok |-> TRUE, order |-> order, err |-> None]
        ELSE [ok |-> FALSE, order |-> <<>>, err |-> "BridgeCycle"]

check_consistency(cfg) ==
    IF \E i \in cfg.instances : cfg.dna[i] \notin DnaIds
        THEN [ok |-> FALSE, err |-> "UnknownDna"]
    ELSE IF \E k \in DOMAIN cfg.bridges :
                \/ cfg.bridges[k].caller_id \notin cfg.instances
                \/ cfg.bridges[k].callee_id \notin cfg.instances
        THEN [ok |-> FALSE, err |-> "UnknownInstance"]
    ELSE IF \E k \in DOMAIN cfg.bridges : cfg.bridges[k].caller_id = cfg.bridges[k].callee_id
        THEN [ok |-> FALSE, err |-> "SelfBridge"]
    ELSE IF \E k \in DOMAIN cfg.interfaces : ~(cfg.interfaces[k].instances \subseteq cfg.instances)
        THEN [ok |-> FALSE, err |-> "UnknownInstance"]
    ELSE IF ~instance_ids_sorted_by_bridge_dependencies(cfg).ok
        THEN [ok |-> FALSE, err |-> "BridgeCycle"]
    ELSE [ok |-> TRUE, err |-> None]

\* ------------------------------------------------------------------- state

VARIABLES
    container,  \* the Container struct
    heap,       \* the Holochain instances behind Arc<RwLock<..>>; a handle is an index
    procs,      \* the helper processes ever spawned, with the kills each received
    uniq,       \* how many unique mock network names have been handed out
    status,     \* "alive", "dropped" or "panicked"
    result,     \* what the last operation returned
    calls,      \* how many load_config calls have run, and whether one has succeeded
    lock,       \* the writer of each instance's RwLock (0: unlocked)
    thr,        \* per RPC thread: the instances it is executing in, the lock it waits for
    main,       \* the container owner's position inside a start/stop fold
    workers,    \* the interface threads ever spawned, each with its router
    sink,       \* the signals received on the signal channels, in arrival order
    wf          \* one run of get_entry_result_workflow: its position and locals

vars == <<container, heap, procs, uniq, status, result, calls, lock, thr, main, workers,
          sink, wf>>

\* No get_entry_result_workflow is running.
WfIdle == [pc |-> "idle"]

conc == <<lock, thr, main, workers, sink, wf>>

Some(x) == <<x>>
NoneV == <<>>

World(c, hp, pr, u) == [c |-> c, heap |-> hp, procs |-> pr, uniq |-> u]

Ok(op) ==
    [op |-> op, ok |-> TRUE, err |-> None, instance |-> None, file |-> None,
     built |-> <<>>, loader_calls |-> <<>>, panic |-> FALSE]

Err(op, kind) == [Ok(op) EXCEPT !.ok = FALSE, !.err = kind]

\* Container::from_config
from_config(cfg, loader) ==
    [instances             |-> EmptyFn,
     config                |-> cfg,
     interface_threads     |-> EmptyFn,
     dna_loader            |-> loader,
     signal_tx             |-> NoneV,
     p2p_config            |-> NoneV,
     network_child_process |-> NoneV]

\* ------------------------------------------------------- external collaborators

\* ipc_spawn: a new helper process with its kill handle and IPC binding, or a failure.
ipc_spawn(pr, launches, origin) ==
    IF launches
    THEN [ok |-> TRUE, procs |-> Append(pr, [origin |-> origin, kills |-> 0]),
          kill |-> Len(pr) + 1, ipc_binding |-> Len(pr) + 1]
    ELSE [ok |-> FALSE, procs |-> pr, kill |-> 0, ipc_binding |-> 0]

\* Invoking a kill handle.
kill(pr, k) == [pr EXCEPT ![k].kills = @ + 1]

\* P2pConfig::unique_mock_config / named_mock_config
mock_config(n) == [backend_kind |-> "mock", ipcUri |-> NoneV, name |-> n]

DefaultMockName == 0

\* The n3h_ipc_uri of a network descriptor that carries one.
ExplicitUri == 0

\* Holochain::new
Holochain_new(id, net, api) ==
    [id |-> id, active |-> FALSE, network |-> net, api |-> api,
     signal |-> NoneV, emitted |-> 0]

\* A context builder that never attaches the signal channel.
with_signals_ignored(inst, c) == inst

\* instantiate_from_config, lines 327-329: the context gets the container's
\* signal sender when there is one.
with_signals(inst, c) ==
    IF c.signal_tx # NoneV THEN [inst EXCEPT !.signal = c.signal_tx] ELSE inst

\* ------------------------------------------------------------------ network

spawn_network(w, launches, origin) ==
    IF w.c.config.network = "none"
    THEN [w |-> w, ok |-> FALSE, err |-> "NotConfigured", ipc_binding |-> 0]
    ELSE LET sp == ipc_spawn(w.procs, launches, origin)
         IN  IF ~sp.ok
             THEN [w |-> w, ok |-> FALSE, err |-> "SpawnError", ipc_binding |-> 0]
             ELSE [w |-> [w EXCEPT !.procs = sp.procs,
                                   !.c.network_child_process = Some(sp.kill)],
                   ok |-> TRUE, err |-> None, ipc_binding |-> sp.ipc_binding]

instance_p2p_config(c) ==
    IF c.p2p_config = NoneV THEN mock_config(DefaultMockName) ELSE c.p2p_config[1]

\* An initialisation that spawns the helper whenever a network descriptor is present.
initialize_p2p_config_ignoring_uri(w, launches) ==
    IF w.c.config.network = "none"
    THEN [w |-> [w EXCEPT !.uniq = @ + 1], value |-> mock_config(w.uniq + 1)]
    ELSE LET sp == spawn_network(w, launches, "init")
         IN  [w |-> sp.w,
              value |-> [backend_kind |-> "IPC",
                         ipcUri |-> IF sp.ok THEN Some(sp.ipc_binding) ELSE NoneV,
                         name |-> 0]]

initialize_p2p_config(w, launches) ==
    IF w.c.config.network = "none"
    THEN [w |-> [w EXCEPT !.uniq = @ + 1], value |-> mock_config(w.uniq + 1)]
    ELSE IF w.c.config.network = "explicit"
    THEN [w |-> w,
          value |-> [backend_kind |-> "IPC", ipcUri |-> Some(ExplicitUri), name |-> 0]]
    ELSE LET sp == spawn_network(w, launches, "init")
         IN  [w |-> sp.w,
              value |-> [backend_kind |-> "IPC",
                         ipcUri |-> IF sp.ok THEN Some(sp.ipc_binding) ELSE NoneV,
                         name |-> 0]]

\* A load_config that initialises the endpoint on every call.
ensure_p2p_config_every_load(w, launches) ==
    LET init == initialize_p2p_config(w, launches)
    IN  [init.w EXCEPT !.c.p2p_config = Some(init.value)]

\* load_config, lines 244-246
ensure_p2p_config(w, launches) ==
    IF w.c.p2p_config = NoneV
    THEN LET init == initialize_p2p_config(w, launches)
         IN  [init.w EXCEPT !.c.p2p_config = Some(init.value)]
    ELSE w

\* impl Drop for Container
drop(w) ==
    IF w.c.network_child_process # NoneV
    THEN [w EXCEPT !.procs = kill(w.procs, w.c.network_child_process[1]),
                   !.c.network_child_process = NoneV]
    ELSE w

\* ------------------------------------------------------- instance lifecycle

\* Holochain::start / Holochain::stop on one instance; either may report a fault.
Holochain_start(inst) == [inst EXCEPT !.active = TRUE]
Holochain_stop(inst) == [inst EXCEPT !.active = FALSE]

\* How a fold over the registry can go: the instances of `done` are handled, and
\* unless these are all, the next one reports a fault and ends the fold (the registry
\* is a HashMap, so the fold may meet the instances in any order).
FoldChoices(keys) == SUBSET keys

HandlesOf(c, ids) == {c.instances[i] : i \in ids}

\* A fold that reports success although an instance reported a fault.
fold_result_swallowed(op, c, done) == Ok(op)

fold_result(op, c, done) ==
    IF done = DOMAIN c.instances THEN Ok(op) ELSE Err(op, "InstanceError")

start_all_instances(w, done) ==
    [w   |-> [w EXCEPT !.heap = [h \in DOMAIN w.heap |->
                        IF h \in HandlesOf(w.c, done)
                        THEN Holochain_start(w.heap[h]) ELSE w.heap[h]]],
     ret |-> fold_result("start_all_instances", w.c, done)]

\* A stop_all_instances that walks the registry without stopping anything.
stop_all_instances_skipped(w, done) ==
    [w |-> w, ret |-> fold_result("stop_all_instances", w.c, done)]

stop_all_instances(w, done) ==
    [w   |-> [w EXCEPT !.heap = [h \in DOMAIN w.heap |->
                        IF h \in HandlesOf(w.c, done)
                        THEN Holochain_stop(w.heap[h]) ELSE w.heap[h]]],
     ret |-> fold_result("stop_all_instances", w.c, done)]

\* A shutdown that forgets the instances without stopping them.
shutdown_without_stop(w, done) ==
    [w |-> [w EXCEPT !.c.instances = EmptyFn], ret |-> Ok("shutdown")]

\* A shutdown that empties the registry whether or not the stops succeeded.
shutdown_clearing_on_error(w, done) ==
    LET st == stop_all_instances(w, done)
    IN  [w   |-> [st.w EXCEPT !.c.instances = EmptyFn],
         ret |-> [st.ret EXCEPT !.op = "shutdown"]]

\* shutdown, lines 145-150
shutdown(w, done) ==
    LET st == stop_all_instances(w, done)
    IN  IF ~st.ret.ok
        THEN [w |-> st.w, ret |-> [st.ret EXCEPT !.op = "shutdown"]]
        ELSE [w |-> [st.w EXCEPT !.c.instances = EmptyFn], ret |-> Ok("shutdown")]

\* ------------------------------------------------------------- load_config

\* ContainerApiBuilder::with_named_instance: the call table is keyed by handle.
with_named_instance(api, handle, inst) == Insert(api, handle, inst)

\* instantiate_from_config, lines 309-325: the bridges of one caller, in order.
RECURSIVE bind_bridges(_, _, _, _)
bind_bridges(c, deps, k, api) ==
    IF k > Len(deps) THEN [panic |-> FALSE, api |-> api]
    ELSE IF deps[k].callee_id \notin DOMAIN c.instances
         THEN [panic |-> TRUE, api |-> api]
         ELSE bind_bridges(c, deps, k + 1,
                  with_named_instance(api, deps[k].handle, c.instances[deps[k].callee_id]))

\* A loader result that is never looked at.
load_dna_unchecked(c, file) == TRUE

\* DnaLoader: the injected loader fails on the files it cannot read.
load_dna(c, file) == file \notin c.dna_loader

instantiate_from_config(c, id, newOk) ==
    LET cfg   == c.config
        fail(kind) == [ok |-> FALSE, panic |-> FALSE, err |-> kind, file |-> None,
                       called |-> <<>>,
                       inst |-> Holochain_new(id, instance_p2p_config(c), EmptyFn)]
        cc == check_consistency(cfg)
    IN  IF ~cc.ok THEN fail(cc.err)
        ELSE IF id \notin cfg.instances THEN fail("InstanceNotFound")
        ELSE IF id \in cfg.bad_keys THEN fail("BadKey")
        ELSE LET bound == bind_bridges(c, bridge_dependencies(cfg, id), 1, EmptyFn)
                 file  == dna_file(cfg.dna[id])
             IN  IF bound.panic THEN [fail("Panic") EXCEPT !.panic = TRUE]
                 ELSE IF ~load_dna(c, file)
                     THEN [fail("CouldNotLoadDna") EXCEPT !.file = file, !.called = <<file>>]
                 ELSE IF ~newOk THEN [fail("HolochainNew") EXCEPT !.called = <<file>>]
                 ELSE [ok |-> TRUE, panic |-> FALSE, err |-> None, file |-> None,
                       called |-> <<file>>,
                       inst |-> with_signals(
                                  Holochain_new(id, instance_p2p_config(c), bound.api), c)]

\* A load_config that builds the instance and forgets to register it.
register_instance_forgotten(w, id, inst) == [w EXCEPT !.heap = Append(@, inst)]

\* load_config, lines 262-263: a fresh shared cell, registered under the id.
register_instance(w, id, inst) ==
    [w EXCEPT !.heap = Append(@, inst),
              !.c.instances = Insert(@, id, Len(w.heap) + 1)]

\* A loop that ends before it has built anything.
build_instances_none(w, order, k, newFailAt, built) ==
    [w |-> w, ret |-> [Ok("load_config") EXCEPT !.built = built]]

\* load_config, lines 252-264.  newFailAt is the position in the order at which
\* Holochain::new reports a fault (0: nowhere).  The result lists the files the
\* module loader was called with.
RECURSIVE build_instances(_, _, _, _, _)
build_instances(w, order, k, newFailAt, built) ==
    IF k > Len(order)
    THEN [w |-> w, ret |-> [Ok("load_config") EXCEPT !.built = built]]
    ELSE LET r == instantiate_from_config(w.c, order[k], k # newFailAt)
         IN  IF ~r.ok
             THEN [w   |-> w,
                   ret |-> [Err("load_config", r.err) EXCEPT
                               !.instance = order[k], !.file = r.file,
                               !.built = built, !.loader_calls = r.called,
                               !.panic = r.panic]]
             ELSE LET rest == build_instances(register_instance(w, order[k], r.inst),
                                              order, k + 1, newFailAt, Append(built, order[k]))
                  IN  [rest EXCEPT !.ret.loader_calls = r.called \o @]

\* A load_config that leaves a registry that already holds instances as it is.
load_config_once(w, nd) ==
    LET cc     == check_consistency(w.c.config)
        w1     == ensure_p2p_config(w, nd.launches)
        sorted == instance_ids_sorted_by_bridge_dependencies(w.c.config)
    IN  IF ~cc.ok THEN [w |-> w, ret |-> Err("load_config", cc.err)]
        ELSE IF DOMAIN w.c.instances # {} THEN [w |-> w1, ret |-> Ok("load_config")]
        ELSE build_instances(w1, sorted.order, 1, nd.newFailAt, <<>>)

\* A load_config that validates only after the endpoint is initialised.
load_config_validating_late(w, nd) ==
    LET w1 == ensure_p2p_config(w, nd.launches)
        cc == check_consistency(w.c.config)
    IN  IF ~cc.ok THEN [w |-> w1, ret |-> Err("load_config", cc.err)]
        ELSE
        LET sd == shutdown(w1, nd.stop)
        IN  IF ~sd.ret.ok
            THEN [w |-> sd.w, ret |-> [sd.ret EXCEPT !.op = "load_config"]]
            ELSE
            LET w2     == [sd.w EXCEPT !.c.instances = EmptyFn]
                sorted == instance_ids_sorted_by_bridge_dependencies(w2.c.config)
            IN  IF ~sorted.ok THEN [w |-> w2, ret |-> Err("load_config", sorted.err)]
                ELSE build_instances(w2, sorted.order, 1, nd.newFailAt, <<>>)

\* load_config, lines 241-266
load_config(w, nd) ==
    LET cc == check_consistency(w.c.config)
    IN  IF ~cc.ok THEN [w |-> w, ret |-> Err("load_config", cc.err)]
        ELSE
        LET w1 == ensure_p2p_config(w, nd.launches)
            sd == shutdown(w1, nd.stop)
        IN  IF ~sd.ret.ok
            THEN [w |-> sd.w, ret |-> [sd.ret EXCEPT !.op = "load_config"]]
            ELSE
            LET w2     == [sd.w EXCEPT !.c.instances = EmptyFn]
                sorted == instance_ids_sorted_by_bridge_dependencies(w2.c.config)
            IN  IF ~sorted.ok THEN [w |-> w2, ret |-> Err("load_config", sorted.err)]
                ELSE build_instances(w2, sorted.order, 1, nd.newFailAt, <<>>)

\* ----------------------------------------------------------------- actions

MainIdle == [op |-> "idle", todo |-> {}, want |-> 0, cur |-> 0]

Self == World(container, heap, procs, uniq)

\* The configurations and module loaders a container is constructed with.
Environments ==
    {[config |-> cfg, loader |-> {}] :
        cfg \in BridgeConfigs \cup NetworkConfigs \cup RejectedConfigs}
        \cup {[config |-> cfg, loader |-> bad] : cfg \in LoaderConfigs, bad \in SUBSET Files}

Init ==
    /\ \E env \in Environments : container = from_config(env.config, env.loader)
    /\ heap = <<>>
    /\ procs = <<>>
    /\ uniq = 0
    /\ status = "alive"
    /\ result = Ok("from_config")
    /\ calls = [load |-> 0, loaded |-> FALSE]
    /\ lock = <<>>
    /\ thr = <<>>
    /\ main = MainIdle
    /\ workers = <<>>
    /\ sink = <<>>
    /\ wf = WfIdle

\* What the collaborators may do during one load_config.
LoadChoices ==
    LET launch == IF container.config.network = "spawn" /\ container.p2p_config = NoneV
                  THEN BOOLEAN ELSE {TRUE}
        stops  == FoldChoices(DOMAIN container.instances)
    IN  {[launches |-> l, stop |-> s, newFailAt |-> 0] :
            l \in launch, s \in stops \ {DOMAIN container.instances}}
        \cup {[launches |-> l, stop |-> DOMAIN container.instances, newFailAt |-> n] :
                l \in launch, n \in 0 .. Cardinality(container.config.instances)}

Commit(out) ==
    /\ container' = out.w.c
    /\ heap' = out.w.heap
    /\ procs' = out.w.procs
    /\ uniq' = out.w.uniq
    /\ result' = out.ret

LoadConfig ==
    /\ status = "alive"
    /\ calls.load < MaxLoads
    /\ \E nd \in LoadChoices :
          LET out == load_config(Self, nd)
          IN  /\ Commit(out)
              /\ status' = IF out.ret.panic THEN "panicked" ELSE "alive"
              /\ calls' = [load |-> calls.load + 1, loaded |-> calls.loaded \/ out.ret.ok]
    /\ UNCHANGED conc

\* impl TryFrom<&Configuration> for Container: a failed load drops the container.
TryFrom ==
    /\ status = "alive"
    /\ result.op = "from_config"
    /\ calls.load < MaxLoads
    /\ \E nd \in LoadChoices :
          LET out == load_config(Self, nd)
          IN  IF out.ret.ok
              THEN /\ Commit([out EXCEPT !.ret.op = "try_from"])
                   /\ status' = "alive"
              ELSE /\ Commit([w |-> drop(out.w), ret |-> [out.ret EXCEPT !.op = "try_from"]])
                   /\ status' = IF out.ret.panic THEN "panicked" ELSE "dropped"
    /\ calls' = [load |-> calls.load + 1, loaded |-> result'.ok]
    /\ UNCHANGED conc

Shutdown ==
    /\ status = "alive"
    /\ \E ch \in FoldChoices(DOMAIN container.instances) : Commit(shutdown(Self, ch))
    /\ UNCHANGED <<status, calls, conc>>

StartAllInstances ==
    /\ status = "alive"
    /\ \E ch \in FoldChoices(DOMAIN container.instances) :
          Commit(start_all_instances(Self, ch))
    /\ UNCHANGED <<status, calls, conc>>

StopAllInstances ==
    /\ status = "alive"
    /\ \E ch \in FoldChoices(DOMAIN container.instances) :
          Commit(stop_all_instances(Self, ch))
    /\ UNCHANGED <<status, calls, conc>>

SpawnNetwork ==
    /\ status = "alive"
    /\ Len(procs) < MaxProcs
    /\ \E launches \in BOOLEAN :
          LET sp == spawn_network(Self, launches, "direct")
          IN  Commit([w   |-> sp.w,
                      ret |-> IF sp.ok THEN Ok("spawn_network")
                              ELSE Err("spawn_network", sp.err)])
    /\ UNCHANGED <<status, calls, conc>>

Drop ==
    /\ status = "alive"
    /\ Commit([w |-> drop(Self), ret |-> Ok("drop")])
    /\ status' = "dropped"
    /\ UNCHANGED <<calls, conc>>

Next ==
    \/ LoadConfig
    \/ TryFrom
    \/ Shutdown
    \/ StartAllInstances
    \/ StopAllInstances
    \/ SpawnNetwork
    \/ Drop

Spec == Init /\ [][Next]_vars

\* --------------------------------------------------------------- signal sink
\* The owner attaches a signal sender between the other operations.

\* The senders of the signal channels a caller may hand over.
Senders == {"tx1", "tx2"}

\* Container::with_signal_channel: panics when the registry holds an instance.
with_signal_channel(c, tx) ==
    IF DOMAIN c.instances # {}
    THEN [c |-> c, ret |-> [Err("with_signal_channel", "Panic") EXCEPT !.panic = TRUE]]
    ELSE [c |-> [c EXCEPT !.signal_tx = Some(tx)], ret |-> Ok("with_signal_channel")]

\* with_signal_channel takes the container by value: a panic unwinds and drops it.
WithSignalChannel ==
    /\ status = "alive"
    /\ \E tx \in Senders :
          LET out == with_signal_channel(container, tx)
          IN  IF out.ret.panic
              THEN /\ Commit([w |-> drop(Self), ret |-> out.ret])
                   /\ status' = "panicked"
              ELSE /\ Commit([w |-> [Self EXCEPT !.c = out.c], ret |-> out.ret])
                   /\ status' = "alive"
    /\ UNCHANGED <<calls, conc>>

\* The test configuration with a loader that reads every file or fails on some.
SignalEnvironments ==
    {[config |-> Config(Ids, BaseDna, BaseBridges, "none", {}), loader |-> bad] :
        bad \in SUBSET Files}

InitSignal ==
    /\ \E env \in SignalEnvironments : container = from_config(env.config, env.loader)
    /\ heap = <<>>
    /\ procs = <<>>
    /\ uniq = 0
    /\ status = "alive"
    /\ result = Ok("from_config")
    /\ calls = [load |-> 0, loaded |-> FALSE]
    /\ lock = <<>>
    /\ thr = <<>>
    /\ main = MainIdle
    /\ workers = <<>>
    /\ sink = <<>>
    /\ wf = WfIdle

NextSignal ==
    \/ WithSignalChannel
    \/ LoadConfig
    \/ Shutdown
    \/ StartAllInstances

SpecSignal == InitSignal /\ [][NextSignal]_vars

\* ------------------------------------------------------------ signal emission
\* Each instance runs its own action loop; an instance whose context carries a
\* signal sender sends its InitApplication and then its InitNetwork on it.

\* How many signals the channels hold at most.
MaxSignals == 6

SignalKinds == <<"InitApplication", "InitNetwork">>

\* The next signal of instance h arrives on the channel of its context.
Emit(h) ==
    /\ status = "alive"
    /\ h \in Range(container.instances)
    /\ heap[h].signal # NoneV
    /\ heap[h].emitted < Len(SignalKinds)
    /\ Len(sink) < MaxSignals
    /\ sink' = Append(sink, [tx   |-> heap[h].signal[1],
                             from |-> h,
                             kind |-> SignalKinds[heap[h].emitted + 1]])
    /\ heap' = [heap EXCEPT ![h].emitted = @ + 1]
    /\ UNCHANGED <<container, procs, uniq, status, result, calls, lock, thr, main,
                   workers, wf>>

\* tests::test_container_with_signals: the test configuration and a loader
\* that reads every file.
EmitEnvironments ==
    {[config |-> Config(Ids, BaseDna, BaseBridges, "none", {}), loader |-> {}]}

InitEmit ==
    /\ \E env \in EmitEnvironments : container = from_config(env.config, env.loader)
    /\ heap = <<>>
    /\ procs = <<>>
    /\ uniq = 0
    /\ status = "alive"
    /\ result = Ok("from_config")
    /\ calls = [load |-> 0, loaded |-> FALSE]
    /\ lock = <<>>
    /\ thr = <<>>
    /\ main = MainIdle
    /\ workers = <<>>
    /\ sink = <<>>
    /\ wf = WfIdle

NextEmit ==
    \/ WithSignalChannel
    \/ LoadConfig
    \/ \E h \in DOMAIN heap : Emit(h)

SpecEmit == InitEmit /\ [][NextEmit]_vars

\* ------------------------------------------------------- get-entry workflows
\* core/src/workflows/get_entry_result.rs: one run of get_entry_result_workflow
\* over an entry store; the network fetch is a suspension point.

\* How many times one run may enter the loop.
MaxLookups == 4

Addresses == {"a1", "a2", "a3"}

CrudStatuses == {"Live", "Modified", "Deleted"}

StatusRequestKinds == {"Initial", "Latest", "All"}

\* EntryWithMeta: the crud status and the crud link of an entry.
EntryWithMeta(cs, link) == [crud_status |-> cs, maybe_crud_link |-> link]

Entries ==
    {EntryWithMeta(cs, link) :
        cs \in CrudStatuses, link \in {NoneV} \cup {Some(a) : a \in Addresses}}

\* What can be read at each address, locally or from the network.
Stores == [Addresses -> {NoneV} \cup {Some(e) : e \in Entries}]

GetEntryArgs ==
    [address : Addresses, status_request : StatusRequestKinds,
     sources : BOOLEAN, header : BOOLEAN]

\* Result<Option<EntryWithMeta>, HolochainError>
Lookups ==
    {[ok |-> FALSE, value |-> NoneV]}
        \cup {[ok |-> TRUE, value |-> v] : v \in {NoneV} \cup {Some(e) : e \in Entries}}

\* GetEntryResult: the entries accumulated so far.
GetEntryResult_new == <<>>

push(entry_result, entry) == Append(entry_result, entry)

clear(entry_result) == <<>>

\* A get_entry_with_meta_workflow that asks the network unless the local lookup hit.
get_entry_with_meta_workflow_fetching_on_error(local) ==
    [fetch |-> local.value = NoneV, ret |-> local]

\* get_entry_with_meta_workflow, lines 16-21: what follows the local lookup.
get_entry_with_meta_workflow(local) ==
    IF ~local.ok THEN [fetch |-> FALSE, ret |-> local]
    ELSE IF local.value # NoneV THEN [fetch |-> FALSE, ret |-> local]
    ELSE [fetch |-> TRUE, ret |-> local]

\* A loop head that leaves the address in place.
take_address_keeping(t) == [t EXCEPT !.address = t.maybe_address[1], !.iter = @ + 1]

\* get_entry_result_workflow, lines 41-42
take_address(t) ==
    [t EXCEPT !.address = t.maybe_address[1], !.maybe_address = NoneV, !.iter = @ + 1]

\* A loop body without the erasure for Latest.
loop_body_without_erase(t, maybe_entry_with_meta) ==
    IF maybe_entry_with_meta = NoneV THEN [t EXCEPT !.pc = "loop"]
    ELSE LET e  == maybe_entry_with_meta[1]
             t1 == [t EXCEPT !.entry_result = push(@, e)]
         IN  IF t.args.status_request = "Initial" THEN [t1 EXCEPT !.pc = "break"]
             ELSE IF /\ e.maybe_crud_link # NoneV
                     /\ e.crud_status # "Deleted"
                     /\ t.args.status_request # "Initial"
                 THEN [t1 EXCEPT !.pc = "loop", !.maybe_address = e.maybe_crud_link]
             ELSE [t1 EXCEPT !.pc = "loop"]

\* get_entry_result_workflow, lines 45-71: the loop body after the lookup.
loop_body(t, maybe_entry_with_meta) ==
    IF maybe_entry_with_meta = NoneV THEN [t EXCEPT !.pc = "loop"]
    ELSE LET e  == maybe_entry_with_meta[1]
             t1 == [t EXCEPT !.entry_result = push(@, e)]
         IN  IF t.args.status_request = "Latest" /\ e.crud_status = "Deleted"
                 THEN [t EXCEPT !.pc = "break", !.entry_result = clear(@)]
             ELSE IF t.args.status_request = "Initial" THEN [t1 EXCEPT !.pc = "break"]
             ELSE IF /\ e.maybe_crud_link # NoneV
                     /\ e.crud_status # "Deleted"
                     /\ t.args.status_request # "Initial"
                 THEN [t1 EXCEPT !.pc = "loop", !.maybe_address = e.maybe_crud_link]
             ELSE [t1 EXCEPT !.pc = "loop"]

\* The store without entries.
EmptyStore == [a \in Addresses |-> NoneV]

\* A task about to run get_entry_result_workflow(context, args).
Task(args, store) ==
    [pc            |-> "start",
     args          |-> args,
     store         |-> store,
     maybe_address |-> NoneV,
     address       |-> None,
     entry_result  |-> GetEntryResult_new,
     iter          |-> 0,
     lookups       |-> <<>>,
     found         |-> <<>>,
     ret           |-> [ok |-> TRUE, returned |-> FALSE]]

\* The other variables do not take part in a workflow run.
WorkflowOnly ==
    UNCHANGED <<container, heap, procs, uniq, status, result, calls, lock, thr, main,
                workers, sink>>

\* Lines 31-38: the options check and the setup.
WorkflowStart ==
    /\ wf.pc = "start"
    /\ wf' = IF wf.args.sources \/ wf.args.header
             THEN [wf EXCEPT !.pc = "done", !.ret = [ok |-> FALSE, returned |-> TRUE]]
             ELSE [wf EXCEPT !.pc = "loop",
                             !.entry_result = GetEntryResult_new,
                             !.maybe_address = Some(wf.args.address)]
    /\ WorkflowOnly

\* Line 41: the loop condition; lines 41-42 when it holds, line 73 when not.
WorkflowLoop ==
    /\ wf.pc \in {"loop", "break"}
    /\ IF wf.pc = "loop" /\ wf.maybe_address # NoneV
       THEN /\ wf.iter < MaxLookups
            /\ wf' = [take_address(wf) EXCEPT !.pc = "local"]
       ELSE wf' = [wf EXCEPT !.pc = "done", !.ret = [ok |-> TRUE, returned |-> TRUE]]
    /\ WorkflowOnly

\* Line 44, get_entry_with_meta_workflow: the local lookup finds what the store
\* holds, finds nothing, or fails.
WorkflowLocal ==
    /\ wf.pc = "local"
    /\ \E local \in Lookups :
          /\ local.value \in {NoneV, wf.store[wf.address]}
          /\ LET t == [wf EXCEPT !.lookups = Append(@, [kind    |-> "local",
                                                        address |-> wf.address,
                                                        ret     |-> local])]
                 d == get_entry_with_meta_workflow(local)
             IN  wf' = IF d.fetch THEN [t EXCEPT !.pc = "network"]
                       ELSE IF ~d.ret.ok
                           THEN [t EXCEPT !.pc = "done",
                                          !.ret = [ok |-> FALSE, returned |-> TRUE]]
                       ELSE loop_body([t EXCEPT !.found = Append(@, d.ret.value)],
                                      d.ret.value)
    /\ WorkflowOnly

\* Line 23: the awaited network fetch returns what the store holds, or fails.
WorkflowNetwork ==
    /\ wf.pc = "network"
    /\ \E net \in Lookups :
          /\ net.value \in {NoneV, wf.store[wf.address]}
          /\ net.ok => net.value = wf.store[wf.address]
          /\ LET t == [wf EXCEPT !.lookups = Append(@, [kind    |-> "network",
                                                        address |-> wf.address,
                                                        ret     |-> net])]
             IN  wf' = IF ~net.ok
                       THEN [t EXCEPT !.pc = "done",
                                      !.ret = [ok |-> FALSE, returned |-> TRUE]]
                       ELSE loop_body([t EXCEPT !.found = Append(@, net.value)], net.value)
    /\ WorkflowOnly

WorkflowStep ==
    \/ WorkflowStart
    \/ WorkflowLoop
    \/ WorkflowLocal
    \/ WorkflowNetwork

InitGetEntry ==
    /\ container = from_config(Config(Ids, BaseDna, BaseBridges, "none", {}), {})
    /\ heap = <<>>
    /\ procs = <<>>
    /\ uniq = 0
    /\ status = "alive"
    /\ result = Ok("from_config")
    /\ calls = [load |-> 0, loaded |-> FALSE]
    /\ lock = <<>>
    /\ thr = <<>>
    /\ main = MainIdle
    /\ workers = <<>>
    /\ sink = <<>>
    /\ \E args \in GetEntryArgs, store \in Stores :
          /\ (args.sources \/ args.header) => store = EmptyStore
          /\ wf = Task(args, store)

\* The scheduler polls the task until it returns, and every fetch is answered.
SpecGetEntry == InitGetEntry /\ [][WorkflowStep]_vars /\ WF_vars(WorkflowStep)

\* ---------------------------------------------------------------- interfaces
\* Interface workers are threads; a worker ends only when its listener stops.

\* Configuration::interface_by_id: the first interface descriptor with the id.
interface_by_id(cfg, id) ==
    LET ks == {k \in DOMAIN cfg.interfaces : cfg.interfaces[k].id = id}
    IN  IF ks = {} THEN NoneV
        ELSE Some(cfg.interfaces[CHOOSE k \in ks : \A j \in ks : k <= j])

\* A router over every instance of the registry.
make_interface_handler_unfiltered(c, ic) ==
    [instances |-> c.instances, instance_configs |-> c.config.instances]

\* Container::make_interface_handler: clones of the registry's handles whose id is in
\* the interface's set, and the instance descriptors of the whole configuration.
make_interface_handler(c, ic) ==
    [instances        |-> [id \in {i \in DOMAIN c.instances : i \in ic.instances}
                              |-> c.instances[id]],
     instance_configs |-> c.config.instances]

\* The reflective method info/instances of a router.
info_instances(router) ==
    {id \in DOMAIN router.instances : id \in router.instance_configs}

\* Container::spawn_interface_thread: a new thread that runs the interface with the
\* router built now; the JoinHandle is the index of the thread.
spawn_interface_thread(c, wk, ic) ==
    [workers |-> Append(wk, [config  |-> ic,
                             router  |-> make_interface_handler(c, ic),
                             running |-> TRUE]),
     handle  |-> Len(wk) + 1]

\* Container::start_interface
start_interface(c, wk, ic) ==
    IF ic.id \in DOMAIN c.interface_threads
    THEN [c |-> c, workers |-> wk,
          ret |-> Err("start_interface_by_id", "InterfaceAlreadyRunning")]
    ELSE LET sp == spawn_interface_thread(c, wk, ic)
         IN  [c       |-> [c EXCEPT !.interface_threads = Insert(@, ic.id, sp.handle)],
              workers |-> sp.workers,
              ret     |-> Ok("start_interface_by_id")]

\* Container::start_interface_by_id
start_interface_by_id(c, wk, id) ==
    LET found == interface_by_id(c.config, id)
    IN  IF found = NoneV
        THEN [c |-> c, workers |-> wk,
              ret |-> Err("start_interface_by_id", "InterfaceNotFound")]
        ELSE start_interface(c, wk, found[1])

\* start_all_interfaces, lines 101-106: one thread per descriptor, in document order,
\* collected into a fresh map (a later pair with the same id replaces an earlier one).
RECURSIVE spawn_all(_, _, _, _)
spawn_all(c, wk, k, threads) ==
    IF k > Len(c.config.interfaces) THEN [workers |-> wk, threads |-> threads]
    ELSE LET ic == c.config.interfaces[k]
             sp == spawn_interface_thread(c, wk, ic)
         IN  spawn_all(c, sp.workers, k + 1, Insert(threads, ic.id, sp.handle))

\* Container::start_all_interfaces
start_all_interfaces(c, wk) ==
    LET all == spawn_all(c, wk, 1, EmptyFn)
    IN  [c       |-> [c EXCEPT !.interface_threads = all.threads],
         workers |-> all.workers,
         ret     |-> Ok("start_all_interfaces")]

\* The ids a caller may ask start_interface_by_id for.
InterfaceIds == {"test-interface", "admin", "missing"}

\* The interfaces of the test configuration, and two with ids and sets of their own.
InterfaceFamilies ==
    {BaseInterfaces,
     <<Interface("test-interface", "websocket", {"A", "B"}),
       Interface("admin", "http", {"C"})>>}

InterfaceEnvironments ==
    {[config |-> [Config(Ids, BaseDna, BaseBridges, "none", {}) EXCEPT !.interfaces = ifs],
      loader |-> bad] :
        ifs \in InterfaceFamilies, bad \in {{}, {dna_file("caller")}}}

InitIfaces ==
    /\ \E env \in InterfaceEnvironments : container = from_config(env.config, env.loader)
    /\ heap = <<>>
    /\ procs = <<>>
    /\ uniq = 0
    /\ status = "alive"
    /\ result = Ok("from_config")
    /\ calls = [load |-> 0, loaded |-> FALSE]
    /\ lock = <<>>
    /\ thr = <<>>
    /\ main = MainIdle
    /\ workers = <<>>
    /\ sink = <<>>
    /\ wf = WfIdle

CommitIface(out) ==
    /\ container' = out.c
    /\ workers' = out.workers
    /\ result' = out.ret
    /\ UNCHANGED <<heap, procs, uniq, status, calls, lock, thr, main, sink, wf>>

StartAllInterfaces ==
    /\ status = "alive"
    /\ Len(workers) + Len(container.config.interfaces) <= MaxWorkers
    /\ CommitIface(start_all_interfaces(container, workers))

StartInterfaceById(id) ==
    /\ status = "alive"
    /\ Len(workers) < MaxWorkers
    /\ CommitIface(start_interface_by_id(container, workers, id))

\* The listener of a worker stops (a transport fault): the thread returns.
ListenerStops(k) ==
    /\ workers[k].running
    /\ workers' = [workers EXCEPT ![k].running = FALSE]
    /\ UNCHANGED <<container, heap, procs, uniq, status, result, calls, lock, thr, main,
                   sink, wf>>

\* What the thread that owns the container does.
OwnerStep ==
    \/ LoadConfig
    \/ Shutdown
    \/ StartAllInterfaces
    \/ \E id \in InterfaceIds : StartInterfaceById(id)
    \/ Drop

NextIfaces ==
    \/ OwnerStep
    \/ \E k \in DOMAIN workers : ListenerStops(k)

\* The owner's thread is scheduled and in the end lets go of the container; nothing
\* makes a listener stop.
SpecIfaces == InitIfaces /\ [][NextIfaces]_vars /\ WF_vars(Drop)

\* -------------------------------------------------- concurrent calls and locks
\* The interface workers hold clones of the registry's handles and serve calls while
\* the owner of the container runs start_all_instances, stop_all_instances or
\* shutdown.  Every operation on an instance goes through its RwLock.

Threads == 1 .. NumThreads
MainId == NumThreads + 1

\* RwLock::write as the owner's fold reaches it without waiting for the lock.
write_without_waiting(lk, h, who) == [ok |-> TRUE, lock |-> lk]

\* RwLock::write: granted only when nobody holds the lock.
write(lk, h, who) == [ok |-> lk[h] = 0, lock |-> [lk EXCEPT ![h] = who]]

release(lk, h) == [lk EXCEPT ![h] = 0]

\* A fold that collects its write guards instead of dropping each one.
drop_guard_kept(lk, h) == lk

\* The temporary guard of `hc.write().unwrap().start()` is dropped with the statement.
drop_guard(lk, h) == [lk EXCEPT ![h] = 0]

\* The bridge graph of tests::test_toml, in which every two instances are bridged
\* (the longest call chains), under both ways of naming the bridges.
CallConfigs ==
    {Config(Ids, BaseDna,
            {Bridge(b.caller_id, b.callee_id, HandleOf(scheme, b.caller_id, b.callee_id)) :
                b \in BaseBridges},
            "none", {}) : scheme \in {"distinct", "same"}}

Loaded(cfg) ==
    load_config(World(from_config(cfg, {}), <<>>, <<>>, 0),
                [launches |-> TRUE, stop |-> {}, newFailAt |-> 0])

InitCalls ==
    /\ \E cfg \in CallConfigs :
          LET out == Loaded(cfg)
          IN  /\ container = out.w.c
              /\ heap = out.w.heap
              /\ procs = out.w.procs
              /\ uniq = out.w.uniq
              /\ result = out.ret
    /\ status = "alive"
    /\ calls = [load |-> 1, loaded |-> TRUE]
    /\ lock = [h \in 1 .. Cardinality(Ids) |-> 0]
    /\ thr = [t \in Threads |-> [stack |-> <<>>, want |-> 0]]
    /\ main = MainIdle
    /\ workers = <<>>
    /\ sink = <<>>
    /\ wf = WfIdle

Top(t) == thr[t].stack[Len(thr[t].stack)]

seq == <<container, procs, uniq, status, calls, workers, sink, wf>>

\* A request for instance h arrives at a worker: the handler asks for h's write lock.
RpcCall(t, h) ==
    /\ thr[t].stack = <<>>
    /\ thr[t].want = 0
    /\ thr' = [thr EXCEPT ![t].want = h]
    /\ UNCHANGED <<seq, heap, result, lock, main>>

\* The lock is granted: the call (RPC or bridge) executes in the instance.
Acquire(t) ==
    /\ thr[t].want # 0
    /\ write(lock, thr[t].want, t).ok
    /\ lock' = write(lock, thr[t].want, t).lock
    /\ thr' = [thr EXCEPT ![t].stack = Append(@, thr[t].want), ![t].want = 0]
    /\ UNCHANGED <<seq, heap, result, main>>

\* The executing instance calls one of its bridges: the call table's handle is locked.
BridgeCall(t, name) ==
    /\ thr[t].stack # <<>>
    /\ thr[t].want = 0
    /\ name \in DOMAIN heap[Top(t)].api
    /\ thr' = [thr EXCEPT ![t].want = heap[Top(t)].api[name]]
    /\ UNCHANGED <<seq, heap, result, lock, main>>

\* The innermost call returns and its guard is dropped.
Return(t) ==
    /\ thr[t].stack # <<>>
    /\ thr[t].want = 0
    /\ lock' = release(lock, Top(t))
    /\ thr' = [thr EXCEPT ![t].stack = SubSeq(@, 1, Len(@) - 1)]
    /\ UNCHANGED <<seq, heap, result, main>>

\* start_all_instances, stop_all_instances or shutdown begins its fold.
MainBegin(op) ==
    /\ main.op = "idle"
    /\ main' = [op |-> op, todo |-> DOMAIN container.instances, want |-> 0, cur |-> 0]
    /\ UNCHANGED <<seq, heap, result, lock, thr>>

\* The fold reaches the next instance of the HashMap and asks for its write lock.
MainNext(i) ==
    /\ main.op # "idle"
    /\ main.want = 0
    /\ main.cur = 0
    /\ i \in main.todo
    /\ main' = [main EXCEPT !.todo = @ \ {i}, !.want = container.instances[i]]
    /\ UNCHANGED <<seq, heap, result, lock, thr>>

MainAcquire ==
    /\ main.want # 0
    /\ write(lock, main.want, MainId).ok
    /\ lock' = write(lock, main.want, MainId).lock
    /\ main' = [main EXCEPT !.cur = main.want, !.want = 0]
    /\ UNCHANGED <<seq, heap, result, thr>>

\* start() or stop() runs on the locked instance; a fault ends the fold.
MainRun(ok) ==
    /\ main.cur # 0
    /\ lock' = drop_guard(lock, main.cur)
    /\ IF ok
       THEN /\ heap' = [heap EXCEPT ![main.cur] =
                           IF main.op = "start_all_instances"
                           THEN Holochain_start(@) ELSE Holochain_stop(@)]
            /\ main' = [main EXCEPT !.cur = 0]
       ELSE /\ main' = MainIdle
            /\ UNCHANGED heap
    /\ UNCHANGED <<seq, result, thr>>

\* The fold is through; shutdown then clears the registry.
MainEnd ==
    /\ main.op # "idle"
    /\ main.todo = {}
    /\ main.want = 0
    /\ main.cur = 0
    /\ main' = MainIdle
    /\ container' = IF main.op = "shutdown"
                    THEN [container EXCEPT !.instances = EmptyFn] ELSE container
    /\ UNCHANGED <<heap, procs, uniq, status, result, calls, lock, thr, workers, sink, wf>>

NextCalls ==
    \/ \E t \in Threads, h \in DOMAIN heap : RpcCall(t, h)
    \/ \E t \in Threads : Acquire(t)
    \/ \E t \in Threads, name \in Handles : BridgeCall(t, name)
    \/ \E t \in Threads : Return(t)
    \/ \E op \in {"start_all_instances", "stop_all_instances", "shutdown"} : MainBegin(op)
    \/ \E i \in Ids : MainNext(i)
    \/ MainAcquire
    \/ \E ok \in BOOLEAN : MainRun(ok)
    \/ MainEnd

SpecCalls == InitCalls /\ [][NextCalls]_vars

\* ------------------------------------------------------------------ claims

IsLoad == result.op \in {"load_config", "try_from"}

BuildErrors == {"BadKey", "CouldNotLoadDna", "HolochainNew"}

SortedIds == instance_ids_sorted_by_bridge_dependencies(container.config).order

CalleesOf(id) ==
    {container.config.bridges[k].callee_id :
        k \in {j \in DOMAIN container.config.bridges :
                 container.config.bridges[j].caller_id = id}}

\* C1: load_config builds the instances in an order in which every bridge's callee
\* precedes its caller, so the callee is in the registry when the caller is built and
\* the "callee must be present" expectation never fails.
C1_CalleesBuiltBeforeCallers ==
    /\ status # "panicked"
    /\ ~result.panic
    /\ IsLoad =>
          \A k \in DOMAIN result.built :
              CalleesOf(result.built[k]) \subseteq {result.built[j] : j \in 1 .. (k - 1)}
    /\ \A id \in DOMAIN container.instances :
          CalleesOf(id) \subseteq DOMAIN container.instances

C1_Witness ==
    /\ result.op = "load_config"
    /\ result.ok
    /\ result.built = <<"C", "A", "B">>

\* C2: after a load_config that failed while building an instance, the registry holds
\* none of the instances built earlier in that load, and the error names the failing
\* instance.
C2_FailedLoadDiscardsRegistry ==
    (result.op = "load_config" /\ ~result.ok /\ result.err \in BuildErrors) =>
        /\ container.instances = EmptyFn
        /\ result.instance \in container.config.instances

\* C3: when the module loader fails, load_config and try_from fail with an error that
\* names the first instance in topological order whose module cannot be loaded and
\* that module's file, and exactly the instances before it in the order were built.
UnloadableAt ==
    {k \in DOMAIN SortedIds :
        dna_file(container.config.dna[SortedIds[k]]) \in container.dna_loader}

C3_LoaderFailureNamesFirstInstance ==
    /\ (IsLoad /\ result.err = "CouldNotLoadDna") =>
          /\ UnloadableAt # {}
          /\ LET first == CHOOSE k \in UnloadableAt : \A j \in UnloadableAt : k <= j
             IN  /\ result.instance = SortedIds[first]
                 /\ result.file = dna_file(container.config.dna[SortedIds[first]])
                 /\ result.built = SubSeq(SortedIds, 1, first - 1)
    /\ (IsLoad /\ result.ok) => UnloadableAt = {}

C3_Witness ==
    /\ result.op = "load_config"
    /\ result.err = "CouldNotLoadDna"
    /\ result.instance = "B"
    /\ result.file = "app_spec.hcpkg"
    /\ result.built = <<"A">>
    /\ "bridge/caller.dna" \in container.dna_loader

\* C4: the helper process is spawned at most once, no helper is killed twice, and once
\* the container is dropped every helper that was spawned has been killed exactly once.
C4_HelperSpawnedOnceKilledOnce ==
    /\ Len(procs) <= 1
    /\ \A k \in DOMAIN procs : procs[k].kills <= 1
    /\ status = "dropped" => \A k \in DOMAIN procs : procs[k].kills = 1

\* C5: the endpoint is produced by the first load_config that gets past validation and
\* never changes afterwards; every instance a load_config builds is given that value.
C5_EndpointProducedOnce ==
    [][/\ container.p2p_config # NoneV => container'.p2p_config = container.p2p_config
       /\ (container.p2p_config = NoneV /\ container'.p2p_config # NoneV) =>
              /\ result'.op \in {"load_config", "try_from"}
              /\ check_consistency(container.config).ok
       /\ (result'.op \in {"load_config", "try_from"} /\ check_consistency(container.config).ok)
              => container'.p2p_config # NoneV
       /\ \A h \in DOMAIN heap' : Some(heap'[h].network) = container'.p2p_config]_vars

C5_Witness ==
    /\ calls.load = 2
    /\ result.ok
    /\ Len(heap) = 6
    /\ heap[1].network = heap[6].network
    /\ heap[1].network.backend_kind = "mock"

\* C6: when the helper cannot be launched, endpoint initialisation fails: load_config
\* returns the spawn error, no endpoint is cached and no kill handle is recorded.
C6_SpawnFailureFailsInitialisation ==
    [][(/\ result'.op = "load_config"
        /\ check_consistency(container.config).ok
        /\ container.config.network = "spawn"
        /\ container.p2p_config = NoneV
        /\ Len(procs') = Len(procs))
          => /\ ~result'.ok
             /\ result'.err = "SpawnError"
             /\ container'.p2p_config = NoneV
             /\ container'.network_child_process = NoneV]_vars

\* C7: with an explicit IPC endpoint in the network descriptor, endpoint initialisation
\* uses it as the ipcUri and spawns nothing: every helper and every recorded kill handle
\* comes from a direct spawn_network call, so without one drop kills nothing.
C7_ExplicitEndpointNeverSpawns ==
    container.config.network = "explicit" =>
        /\ \A k \in DOMAIN procs : procs[k].origin = "direct"
        /\ container.p2p_config # NoneV =>
              /\ container.p2p_config[1].backend_kind = "IPC"
              /\ container.p2p_config[1].ipcUri = Some(ExplicitUri)
        /\ \A h \in DOMAIN heap : heap[h].network.ipcUri = Some(ExplicitUri)

C7_Witness ==
    /\ container.config.network = "explicit"
    /\ container.p2p_config # NoneV
    /\ calls.load = 2
    /\ Len(heap) = 6
    /\ status = "dropped"
    /\ procs = <<>>

\* C8: after a successful load_config, for every bridge (c, d, h) the call table of c
\* binds h to the very handle the registry holds under d.
C8_BridgeBindsRegistryHandle ==
    (IsLoad /\ result.ok) =>
        \A k \in DOMAIN container.config.bridges :
            LET b == container.config.bridges[k]
                caller == heap[container.instances[b.caller_id]]
            IN  /\ b.handle \in DOMAIN caller.api
                /\ caller.api[b.handle] = container.instances[b.callee_id]

\* The agents that take instance locks: the RPC threads and the container's owner.
Agents == Threads \cup {MainId}

Want(a) == IF a = MainId THEN main.want ELSE thr[a].want

Held(a) ==
    IF a = MainId THEN (IF main.cur = 0 THEN {} ELSE {main.cur}) ELSE Range(thr[a].stack)

\* The agent a waits for (0: a is not blocked).
WaitsFor(a) == IF Want(a) = 0 THEN 0 ELSE lock[Want(a)]

RECURSIVE WaitChain(_, _, _)
WaitChain(a, target, n) ==
    /\ n > 0
    /\ WaitsFor(a) # 0
    /\ \/ WaitsFor(a) = target
       \/ WaitChain(WaitsFor(a), target, n - 1)

\* C9: bridge calls cannot deadlock: no agent waits, through a chain of held instance
\* locks, for itself, and whenever an agent is blocked some agent that holds a lock is
\* not blocked and can go on.
C9_NoLockCycle ==
    /\ \A a \in Agents : ~WaitChain(a, a, Cardinality(Agents))
    /\ (\E a \in Agents : WaitsFor(a) # 0) =>
           \E b \in Agents : Held(b) # {} /\ WaitsFor(b) = 0
    /\ \A h \in DOMAIN lock : lock[h] # 0 => h \in Held(lock[h])

C9_Witness ==
    /\ thr[1].want # 0
    /\ lock[thr[1].want] = 2
    /\ Len(thr[2].stack) = 2
    /\ thr[2].want # 0
    /\ lock[thr[2].want] = MainId

\* C10: operations on one instance are serialized by its writer lock: at most one of
\* call, start and stop executes on an instance at a time, and start or stop changes
\* an instance only while no call is in flight on it.
C10_OperationsSerialized ==
    [][\A h \in DOMAIN heap :
          /\ Cardinality({a \in Agents : h \in Held(a)}) <= 1
          /\ Cardinality({a \in Agents : h \in Held(a)'}) <= 1
          /\ heap'[h].active # heap[h].active =>
                /\ main.cur = h
                /\ \A t \in Threads : h \notin Range(thr[t].stack)]_vars

C10_Witness ==
    /\ main.op \in {"stop_all_instances", "shutdown"}
    /\ main.want # 0
    /\ heap[main.want].active
    /\ \E t \in Threads : main.want \in Range(thr[t].stack) /\ Len(thr[t].stack) = 2

\* C11: start_all_instances and stop_all_instances return the failure of the first
\* instance whose start/stop fails: they succeed only when every registered instance
\* was put in the new state; the instances handled before a failure keep that state,
\* every other instance is left as it was, and the registry is not changed.
C11_FoldStopsAtFirstFailure ==
    [][result'.op \in {"start_all_instances", "stop_all_instances"} =>
          LET reg     == Range(container.instances)
              put     == (result'.op = "start_all_instances")
              handled == {h \in reg : heap'[h].active = put}
          IN  /\ container' = container
              /\ DOMAIN heap' = DOMAIN heap
              /\ \A h \in DOMAIN heap :
                    \/ heap'[h] = heap[h]
                    \/ h \in reg /\ heap'[h] = [heap[h] EXCEPT !.active = put]
              /\ result'.ok => handled = reg
              /\ ~result'.ok => result'.err = "InstanceError"]_vars

C11_Witness ==
    /\ result.op = "start_all_instances"
    /\ ~result.ok
    /\ \E h \in Range(container.instances) : heap[h].active
    /\ \E h \in Range(container.instances) : ~heap[h].active

\* C12: a shutdown that succeeds has stopped every registered instance and leaves the
\* registry empty; a shutdown directly after a successful one succeeds and changes
\* no instance and nothing of the container.
C12_ShutdownIdempotent ==
    [][result'.op = "shutdown" =>
          /\ result'.ok =>
                /\ container'.instances = EmptyFn
                /\ \A h \in Range(container.instances) : ~heap'[h].active
          /\ (result.op = "shutdown" /\ result.ok) =>
                /\ result'.ok
                /\ <<container, heap, procs, uniq, status>>'
                      = <<container, heap, procs, uniq, status>>]_vars

C12_Witness ==
    /\ result.op = "shutdown"
    /\ result.ok
    /\ container.instances = EmptyFn
    /\ Len(heap) = Cardinality(Ids)
    /\ \A h \in DOMAIN heap : ~heap[h].active

\* C13: a signal sink is accepted only before the first successful load_config: every
\* with_signal_channel made after a load_config has succeeded panics and leaves the
\* sink as it was, whatever ran in between.
C13_SinkOnlyBeforeFirstLoad ==
    [][(result'.op = "with_signal_channel" /\ calls.loaded) =>
          /\ result'.panic
          /\ container'.signal_tx = container.signal_tx]_vars

RunningWorkers == {k \in DOMAIN workers : workers[k].running}

\* C14: no worker is spawned for an interface id that has a running worker, and while
\* the container lives every running worker is the one recorded in interface_threads
\* under its id (so there is at most one running worker per interface id).
C14_OneWorkerPerInterface ==
    [][status' = "alive" =>
          /\ \A k \in DOMAIN workers' :
                k \notin DOMAIN workers =>
                    \A j \in RunningWorkers : workers[j].config.id # workers'[k].config.id
          /\ \A k \in DOMAIN workers' :
                workers'[k].running =>
                    /\ workers'[k].config.id \in DOMAIN container'.interface_threads
                    /\ container'.interface_threads[workers'[k].config.id] = k]_vars

\* C15: the router of an interface never holds an instance outside the interface's
\* set, and info/instances lists no id outside it; a router built while the registry
\* holds the instances of a successful load lists every id of the set and holds the
\* registry's handle for each.
C15_RouterExposesInterfaceSet ==
    [][\A k \in DOMAIN workers' :
          LET wk == workers'[k]
          IN  /\ DOMAIN wk.router.instances \subseteq wk.config.instances
              /\ info_instances(wk.router) \subseteq wk.config.instances
              /\ (k \notin DOMAIN workers
                    /\ DOMAIN container.instances = container.config.instances) =>
                    /\ info_instances(wk.router) = wk.config.instances
                    /\ \A id \in wk.config.instances :
                          wk.router.instances[id] = container.instances[id]]_vars

C15_Witness ==
    \E k \in DOMAIN workers :
        /\ workers[k].config.instances = {"A", "B"}
        /\ info_instances(workers[k].router) = {"A", "B"}
        /\ DOMAIN container.instances = Ids
        /\ \A id \in {"A", "B"} : workers[k].router.instances[id] = container.instances[id]

\* C16: the handle a running worker's router uses for an instance id is the handle the
\* registry holds under that id.
C16_RouterHandlesAreRegistryHandles ==
    status = "alive" =>
        \A k \in RunningWorkers :
            \A id \in DOMAIN workers[k].router.instances :
                /\ id \in DOMAIN container.instances
                /\ container.instances[id] = workers[k].router.instances[id]

\* C17: once the container is destroyed, every interface worker eventually terminates.
C17_WorkersTerminateOnDrop ==
    (status = "dropped") ~> (RunningWorkers = {})

\* C18: after a successful load_config the registry's ids are the instance ids of the
\* configuration, and the load has built each of them exactly once: one new instance
\* per id, which is the one registered under the id.
C18_RegistryIsConfigBuiltOnce ==
    [][(result'.op \in {"load_config", "try_from"} /\ result'.ok) =>
          LET new == (Len(heap) + 1) .. Len(heap')
          IN  /\ DOMAIN container'.instances = container'.config.instances
              /\ Range(result'.built) = container'.config.instances
              /\ Len(result'.built) = Cardinality(container'.config.instances)
              /\ \A id \in container'.config.instances :
                    /\ Cardinality({h \in new : heap'[h].id = id}) = 1
                    /\ container'.instances[id] \in new
                    /\ heap'[container'.instances[id]].id = id]_vars

C18_Witness ==
    /\ result.op = "load_config"
    /\ result.ok
    /\ DOMAIN container.instances = Ids
    /\ Len(result.built) = Cardinality(Ids)

C20_ReloadReplacesRegistry ==
    [][(result'.op = "load_config" /\ DOMAIN container.instances # {}) =>
          LET old == Range(container.instances)
              new == (Len(heap) + 1) .. Len(heap')
          IN  /\ (new # {} \/ result'.instance # None \/ result'.ok) =>
                    \A h \in old : /\ ~heap'[h].active
                                    /\ h \notin Range(container'.instances)
              /\ result'.ok => Range(container'.instances) \subseteq new]_vars

C20_Witness ==
    /\ result.op = "load_config"
    /\ result.ok
    /\ calls.load = 2
    /\ Len(heap) = 2 * Cardinality(Ids)
    /\ \A h \in 1 .. Cardinality(Ids) : ~heap[h].active
    /\ Range(container.instances) = (Cardinality(Ids) + 1) .. (2 * Cardinality(Ids))

\* C21: within one load_config the module loader is called at most once per file.
C21_LoaderOncePerFile ==
    IsLoad =>
        \A i, j \in DOMAIN result.loader_calls :
            result.loader_calls[i] = result.loader_calls[j] => i = j

\* The bridges of a configuration as caller/callee pairs.
BridgePairs(cfg) ==
    {<<cfg.bridges[k].caller_id, cfg.bridges[k].callee_id>> : k \in DOMAIN cfg.bridges}

\* Some instance reaches itself along bridges.
HasBridgeCycle(cfg) ==
    \E n \in 1 .. Cardinality(Ids) : \E p \in [1 .. n -> Ids] :
        \A k \in 1 .. n : <<p[k], p[(k % n) + 1]>> \in BridgePairs(cfg)

\* Some bridge names an instance the configuration does not declare.
HasUndeclaredInstance(cfg) ==
    \E pr \in BridgePairs(cfg) : pr[1] \notin cfg.instances \/ pr[2] \notin cfg.instances

\* C22: on a configuration with a bridge cycle or a bridge to an undeclared
\* instance, load_config fails in validation and leaves the registry, the
\* endpoint, the kill handle, the helper processes and every instance as they
\* were: nothing is spawned, stopped or built.
C22_RejectedConfigLeavesContainer ==
    [][(/\ calls'.load = calls.load + 1
        /\ result'.op = "load_config"
        /\ HasBridgeCycle(container.config) \/ HasUndeclaredInstance(container.config))
       => /\ ~result'.ok
          /\ result'.err \in {"BridgeCycle", "SelfBridge", "UnknownInstance"}
          /\ result'.built = <<>> /\ result'.loader_calls = <<>>
          /\ container' = container
          /\ heap' = heap
          /\ procs' = procs
          /\ uniq' = uniq]_vars

\* A rejected load on a container whose helper was spawned directly beforehand.
C22_Witness ==
    /\ result.op = "load_config"
    /\ result.err = "BridgeCycle"
    /\ container.config.network = "spawn"
    /\ container.network_child_process # NoneV
    /\ container.p2p_config = NoneV
    /\ Len(procs) = 1

\* Two entries of a list of interface descriptors carry the same id.
HasDuplicateInterfaceId(cfg) ==
    \E i, j \in DOMAIN cfg.interfaces :
        i # j /\ cfg.interfaces[i].id = cfg.interfaces[j].id

\* C23: load_config never succeeds on a configuration in which two interfaces
\* carry the same id.
C23_DuplicateInterfaceIdRejected ==
    (IsLoad /\ result.ok) => ~HasDuplicateInterfaceId(container.config)

\* C25: a shutdown in which an instance fails to stop returns that error and
\* removes nothing from the registry; inside load_config the same failure ends
\* the load with the registry as it was and no instance built.
C25_StopFailureKeepsRegistry ==
    [][/\ (result'.op = "shutdown" /\ ~result'.ok)
            => /\ result'.err = "InstanceError"
               /\ container' = container
               /\ Len(heap') = Len(heap)
       /\ (calls'.load = calls.load + 1 /\ result'.err = "InstanceError")
            => /\ ~result'.ok
               /\ container'.instances = container.instances
               /\ DOMAIN container.instances # {}
               /\ Len(heap') = Len(heap)
               /\ result'.built = <<>>
               /\ result'.loader_calls = <<>>]_vars

\* A second load_config ended by a stop failure, the three instances of the
\* first still registered.
C25_Witness ==
    /\ result.op = "load_config"
    /\ result.err = "InstanceError"
    /\ calls.load = 2
    /\ DOMAIN container.instances = Ids
    /\ Len(heap) = Cardinality(Ids)

\* The signals of instance h, in the order the channels received them.
SignalsFrom(h) == SelectSeq(sink, LAMBDA e : e.from = h)

\* C24: every registered instance carries the sender the container had when it
\* was built; the signals received from an instance are, in order, at most one
\* InitApplication and then at most one InitNetwork, all on that instance's
\* sender, whatever the interleaving with the signals of other instances.
C24_SignalsPerInstanceInOrder ==
    /\ \A h \in Range(container.instances) : heap[h].signal = container.signal_tx
    /\ \A h \in DOMAIN heap :
          /\ Len(SignalsFrom(h)) = heap[h].emitted
          /\ Len(SignalsFrom(h)) <= Len(SignalKinds)
          /\ \A k \in DOMAIN SignalsFrom(h) :
                /\ SignalsFrom(h)[k].kind = SignalKinds[k]
                /\ heap[h].signal = Some(SignalsFrom(h)[k].tx)

\* The three instances of one load have each sent both signals on the one
\* sender, another instance's signal arriving between the two of some instance.
C24_Witness ==
    /\ container.signal_tx # NoneV
    /\ DOMAIN container.instances = Ids
    /\ \A h \in Range(container.instances) :
          /\ heap[h].emitted = Len(SignalKinds)
          /\ \A k \in DOMAIN SignalsFrom(h) :
                Some(SignalsFrom(h)[k].tx) = container.signal_tx
    /\ \E k \in 1 .. Len(sink) - 2 :
          sink[k].from = sink[k + 2].from /\ sink[k + 1].from # sink[k].from

\* C26: get_entry_with_meta_workflow fetches from the network only after a local
\* lookup of the same address that succeeded and found nothing; a local hit and
\* a local error are each returned without a fetch.
C26_FetchOnlyAfterLocalMiss ==
    /\ \A k \in DOMAIN wf.lookups :
          wf.lookups[k].kind = "network"
              => /\ k > 1
                 /\ wf.lookups[k - 1].kind = "local"
                 /\ wf.lookups[k - 1].address = wf.lookups[k].address
                 /\ wf.lookups[k - 1].ret.ok
                 /\ wf.lookups[k - 1].ret.value = NoneV
    /\ wf.pc = "network"
          => /\ wf.lookups # <<>>
             /\ wf.lookups[Len(wf.lookups)].kind = "local"
             /\ wf.lookups[Len(wf.lookups)].ret = [ok |-> TRUE, value |-> NoneV]
    /\ \A k \in DOMAIN wf.lookups :
          (/\ wf.lookups[k].kind = "local"
           /\ wf.lookups[k].ret # [ok |-> TRUE, value |-> NoneV])
              => /\ k < Len(wf.lookups) => wf.lookups[k + 1].kind = "local"
                 /\ k = Len(wf.lookups) => wf.pc # "network"
                 /\ ~wf.lookups[k].ret.ok => (k = Len(wf.lookups) /\ ~wf.ret.ok)

\* One run with a local miss answered by the network, then a local hit, then a
\* local error that ends the run.
C26_Witness ==
    /\ Len(wf.lookups) = 4
    /\ wf.lookups[1].kind = "local" /\ wf.lookups[1].ret = [ok |-> TRUE, value |-> NoneV]
    /\ wf.lookups[2].kind = "network" /\ wf.lookups[2].ret.value # NoneV
    /\ wf.lookups[3].kind = "local" /\ wf.lookups[3].ret.value # NoneV
    /\ wf.lookups[4].kind = "local" /\ ~wf.lookups[4].ret.ok
    /\ wf.pc = "done"

\* The crud link stored at an address, if an entry is there and has one.
CrudLink(store, a) == IF store[a] = NoneV THEN NoneV ELSE store[a][1].maybe_crud_link

\* The addresses met by following crud links from a, up to a repetition.
RECURSIVE Chain(_, _, _)
Chain(store, a, path) ==
    IF a \in Range(path) THEN [path |-> path, cyclic |-> TRUE]
    ELSE IF CrudLink(store, a) = NoneV THEN [path |-> Append(path, a), cyclic |-> FALSE]
    ELSE Chain(store, CrudLink(store, a)[1], Append(path, a))

RequestedChain == Chain(wf.store, wf.args.address, <<>>)

\* The run stops at this address of the chain.
StopsAt(a) ==
    \/ wf.store[a] = NoneV
    \/ wf.store[a][1].crud_status = "Deleted"
    \/ wf.store[a][1].maybe_crud_link = NoneV
    \/ wf.args.status_request = "Initial"

\* The chain up to the first address at which the run stops.
ExpectedVisits ==
    LET path == RequestedChain.path
        stop == CHOOSE k \in DOMAIN path :
                    StopsAt(path[k]) /\ \A j \in 1 .. k - 1 : ~StopsAt(path[j])
    IN  SubSeq(path, 1, stop)

\* The addresses looked up so far, in order.
Visited ==
    LET locals == SelectSeq(wf.lookups, LAMBDA l : l.kind = "local")
    IN  [k \in DOMAIN locals |-> locals[k].address]

C27_ChainOrder ==
    (~RequestedChain.cyclic /\ ~(wf.args.sources \/ wf.args.header))
        => /\ Len(Visited) <= Len(ExpectedVisits)
           /\ Visited = SubSeq(ExpectedVisits, 1, Len(Visited))
           /\ \A i, j \in DOMAIN Visited : Visited[i] = Visited[j] => i = j
           /\ (wf.pc = "done" /\ wf.ret.ok) => Visited = ExpectedVisits

\* C27: when the crud links reachable from the requested address form no cycle,
\* get_entry_result_workflow returns; the addresses it looks up are those of the
\* chain in chain order, each once, up to the first that is missing, Deleted or
\* without a crud link, or only the first when the request is Initial.
C27_AcyclicChainTerminates ==
    /\ []C27_ChainOrder
    /\ (~RequestedChain.cyclic) ~> (wf.pc = "done" /\ wf.ret.returned)

\* A run that followed a chain of three addresses to its end and returned.
C27_Witness ==
    /\ wf.pc = "done"
    /\ wf.ret.ok
    /\ ~RequestedChain.cyclic
    /\ wf.args.status_request = "All"
    /\ Len(Visited) = Cardinality(Addresses)
    /\ Visited = ExpectedVisits
    /\ Len(wf.entry_result) = Cardinality(Addresses)

\* C28: with request Latest, once a lookup has found a Deleted entry the result
\* is empty (what was accumulated is erased and the Deleted entry is not added),
\* that lookup is the last one, and the workflow returns the empty result.
C28_LatestDeletedErasesHistory ==
    \A k \in DOMAIN wf.found :
        (/\ wf.args.status_request = "Latest"
         /\ wf.found[k] # NoneV
         /\ wf.found[k][1].crud_status = "Deleted")
            => /\ k = Len(wf.found)
               /\ wf.entry_result = <<>>
               /\ wf.pc \in {"break", "done"}
               /\ wf.pc = "done" => wf.ret.ok
               /\ wf.lookups[Len(wf.lookups)].ret = [ok |-> TRUE, value |-> wf.found[k]]
               /\ Len(Visited) = k

\* A Latest run that accumulated two entries, met a Deleted third and returned
\* the empty result.
C28_Witness ==
    /\ wf.pc = "done"
    /\ wf.ret.ok
    /\ wf.args.status_request = "Latest"
    /\ Len(wf.found) = Cardinality(Addresses)
    /\ \A k \in 1 .. Len(wf.found) - 1 :
          wf.found[k] # NoneV /\ wf.found[k][1].crud_status # "Deleted"
    /\ wf.found[Len(wf.found)] # NoneV
    /\ wf.found[Len(wf.found)][1].crud_status = "Deleted"
    /\ wf.entry_result = <<>>

====
